---- MODULE Spec2Model ----
(***************************************************************************)
(* API de Noticias de Prensa: the read-only news service of API/main.py.   *)
(*                                                                         *)
(* A Python str is modelled as the sequence of its characters, each a      *)
(* one-character string, so that lower(), == and the substring operator    *)
(* `in` are computed on characters as Python computes them.  An            *)
(* Optional[T] is modelled as a sequence of length 0 (None) or 1 (a value).*)
(***************************************************************************)
EXTENDS Integers, Sequences, FiniteSets, TLC

VARIABLES
  DB_SIMULADA,  \* the module-level list of Noticia (main.py:22)
  peticion,     \* the request being served: endpoint and parameters
  respuesta,    \* the HTTP response produced by the handler
  hilos         \* the worker threads: the handler call each is running,
                \* its position in the code and its local variables

vars == <<DB_SIMULADA, peticion, respuesta, hilos>>

----------------------------------------------------------------------------
(* Optional values *)

None == <<>>

Some(v) == <<v>>

valor(o) == o[1]

(* Mutant of truthy_str: `is not None` in place of truthiness. *)
truthy_str_is_not_none(o) == o # None

(* Python truthiness of an Optional[str]: None and "" are falsy. *)
truthy_str(o) == o # None /\ valor(o) # <<>>

(* Python truthiness of an Optional[date]: a date object is always truthy. *)
truthy_date(o) == o # None

----------------------------------------------------------------------------
(* str.lower(), ==, and `in` on strings *)

(* The cased characters of the alphabet the model draws from; every other  *)
(* character of that alphabet is left as it is by str.lower().             *)
MINUSCULA ==
  "A" :> "a" @@ "B" :> "b" @@ "C" :> "c" @@ "D" :> "d" @@ "E" :> "e"
  @@ "F" :> "f" @@ "G" :> "g" @@ "H" :> "h" @@ "I" :> "i" @@ "J" :> "j"
  @@ "K" :> "k" @@ "L" :> "l" @@ "M" :> "m" @@ "N" :> "n" @@ "O" :> "o"
  @@ "P" :> "p" @@ "Q" :> "q" @@ "R" :> "r" @@ "S" :> "s" @@ "T" :> "t"
  @@ "U" :> "u" @@ "V" :> "v" @@ "W" :> "w" @@ "X" :> "x" @@ "Y" :> "y"
  @@ "Z" :> "z" @@ "Á" :> "á" @@ "É" :> "é" @@ "Í" :> "í" @@ "Ó" :> "ó"
  @@ "Ú" :> "ú" @@ "Ü" :> "ü" @@ "Ñ" :> "ñ"

lower_char(c) == IF c \in DOMAIN MINUSCULA THEN MINUSCULA[c] ELSE c

lower(s) == [i \in 1..Len(s) |-> lower_char(s[i])]

(* needle in hay: needle occurs as a contiguous run of hay. *)
contiene(needle, hay) ==
  \E i \in 0..(Len(hay) - Len(needle)) :
    \A j \in 1..Len(needle) : hay[i + j] = needle[j]

----------------------------------------------------------------------------
(* datetime, date and their comparison *)

datetime(anio, mes, dia, hora, minuto) ==
  [anio |-> anio, mes |-> mes, dia |-> dia, hora |-> hora, minuto |-> minuto]

fecha(anio, mes, dia) == [anio |-> anio, mes |-> mes, dia |-> dia]

(* datetime.date(): the calendar date, the time of day dropped. *)
date(dt) == fecha(dt.anio, dt.mes, dt.dia)

(* date.__le__: year, then month, then day. *)
date_le(a, b) ==
  \/ a.anio < b.anio
  \/ a.anio = b.anio /\ a.mes < b.mes
  \/ a.anio = b.anio /\ a.mes = b.mes /\ a.dia <= b.dia

date_ge(a, b) == date_le(b, a)

----------------------------------------------------------------------------
(* The data model and the simulated database *)

Noticia(id, fecha_publicacion, fuente, titulo, contenido, tema) ==
  [id |-> id, fecha_publicacion |-> fecha_publicacion, fuente |-> fuente,
   titulo |-> titulo, contenido |-> contenido, tema |-> tema]

\* main.py:23
N001 ==
  Noticia(<<"N", "0", "0", "1">>,
    datetime(2025, 10, 25, 10, 30),
    <<"E", "l", " ", "M", "e", "r", "c", "u", "r", "i", "o">>,
    <<"E", "l", " ", "a", "v", "a", "n", "c", "e", " ", "d", "e", " ", "l",
       "a", " ", "I", "A", " ", "r", "e", "v", "o", "l", "u", "c", "i", "o",
       "n", "a", " ", "l", "a", " ", "i", "n", "d", "u", "s", "t", "r", "i",
       "a", " ", "l", "o", "c", "a", "l">>,
    <<"E", "x", "p", "e", "r", "t", "o", "s", " ", "d", "e", "b", "a", "t",
       "e", "n", " ", "s", "o", "b", "r", "e", " ", "e", "l", " ", "i", "m",
       "p", "a", "c", "t", "o", " ", "d", "e", " ", "l", "a", " ", "I", "n",
       "t", "e", "l", "i", "g", "e", "n", "c", "i", "a", " ", "A", "r", "t",
       "i", "f", "i", "c", "i", "a", "l", " ", "e", "n", " ", "e", "l", " ",
       "m", "e", "r", "c", "a", "d", "o", " ", "l", "a", "b", "o", "r", "a",
       "l", ".">>,
    Some(<<"T", "e", "c", "n", "o", "l", "o", "g", "í", "a">>))

\* main.py:31
N002 ==
  Noticia(<<"N", "0", "0", "2">>,
    datetime(2025, 10, 24, 15, 0),
    <<"L", "a", " ", "N", "a", "c", "i", "ó", "n">>,
    <<"C", "r", "i", "s", "i", "s", " ", "c", "l", "i", "m", "á", "t", "i",
       "c", "a", ":", " ", "S", "e", "q", "u", "í", "a", " ", "a", "f", "e",
       "c", "t", "a", " ", "a", " ", "l", "a", " ", "a", "g", "r", "i", "c",
       "u", "l", "t", "u", "r", "a", " ", "d", "e", "l", " ", "s", "u", "r">>,
    <<"L", "o", "s", " ", "a", "g", "r", "i", "c", "u", "l", "t", "o", "r",
       "e", "s", " ", "p", "i", "d", "e", "n", " ", "a", "y", "u", "d", "a",
       " ", "a", "l", " ", "g", "o", "b", "i", "e", "r", "n", "o", " ", "t",
       "r", "a", "s", " ", "m", "e", "s", "e", "s", " ", "s", "i", "n", " ",
       "l", "l", "u", "v", "i", "a", ".">>,
    Some(<<"M", "e", "d", "i", "o", " ", "A", "m", "b", "i", "e", "n", "t", "e">>))

\* main.py:39
N003 ==
  Noticia(<<"N", "0", "0", "3">>,
    datetime(2025, 10, 25, 11, 45),
    <<"E", "l", " ", "M", "e", "r", "c", "u", "r", "i", "o">>,
    <<"R", "e", "s", "u", "l", "t", "a", "d", "o", "s", " ", "e", "l", "e",
       "c", "t", "o", "r", "a", "l", "e", "s", " ", "d", "e", "l", " ", "f",
       "i", "n", " ", "d", "e", " ", "s", "e", "m", "a", "n", "a">>,
    <<"A", "n", "á", "l", "i", "s", "i", "s", " ", "d", "e", "t", "a", "l",
       "l", "a", "d", "o", " ", "d", "e", " ", "l", "o", "s", " ", "v", "o",
       "t", "o", "s", " ", "e", "n", " ", "l", "a", "s", " ", "p", "r", "i",
       "n", "c", "i", "p", "a", "l", "e", "s", " ", "r", "e", "g", "i", "o",
       "n", "e", "s", " ", "d", "e", "l", " ", "p", "a", "í", "s", ".">>,
    Some(<<"P", "o", "l", "í", "t", "i", "c", "a">>))

\* main.py:47
N004 ==
  Noticia(<<"N", "0", "0", "4">>,
    datetime(2025, 10, 20, 8, 0),
    <<"D", "i", "a", "r", "i", "o", " ", "F", "i", "n", "a", "n", "c", "i",
       "e", "r", "o">>,
    <<"G", "r", "a", "n", "d", "e", "s", " ", "i", "n", "v", "e", "r", "s",
       "i", "o", "n", "e", "s", " ", "e", "n", " ", "i", "n", "f", "r", "a",
       "e", "s", "t", "r", "u", "c", "t", "u", "r", "a", " ", "t", "e", "c",
       "n", "o", "l", "ó", "g", "i", "c", "a">>,
    <<"S", "e", " ", "a", "n", "u", "n", "c", "i", "a", " ", "u", "n", " ",
       "n", "u", "e", "v", "o", " ", "c", "e", "n", "t", "r", "o", " ", "d",
       "e", " ", "d", "a", "t", "o", "s", " ", "c", "o", "n", " ", "t", "e",
       "c", "n", "o", "l", "o", "g", "í", "a", " ", "d", "e", " ", "p", "u",
       "n", "t", "a", ".">>,
    Some(<<"T", "e", "c", "n", "o", "l", "o", "g", "í", "a">>))

DATOS_DE_PRUEBA == <<N001, N002, N003, N004>>

(* Further Noticia values a store may hold: tema left at its default None,
   an empty tema, upper-case fields, and times of day at the ends of a day. *)
\* a Noticia built as in main.py:8-15
N005 ==
  Noticia(<<"N", "0", "0", "5">>,
    datetime(2025, 10, 21, 0, 0),
    <<"e", "l", " ", "m", "e", "r", "c", "u", "r", "i", "o">>,
    <<"i", "a">>,
    <<>>,
    None)

\* a Noticia built as in main.py:8-15
N006 ==
  Noticia(<<"N", "0", "0", "6">>,
    datetime(2025, 10, 25, 23, 59),
    <<"M", "e", "r", "c", "u", "r", "i", "o">>,
    <<"M", "e", "d", "i", "a">>,
    <<"I", "A">>,
    Some(<<>>))

\* a Noticia built as in main.py:8-15
N007 ==
  Noticia(<<"N", "0", "0", "7">>,
    datetime(2025, 10, 26, 0, 0),
    <<"E", "L", " ", "M", "E", "R", "C", "U", "R", "I", "O">>,
    <<"T", "E", "C", "N", "O", "L", "O", "G", "Í", "A">>,
    <<"x">>,
    Some(<<"T", "E", "C", "N", "O", "L", "O", "G", "Í", "A">>))

Q_IA == <<"I", "A">>

Q_tecnologia == <<"t", "e", "c", "n", "o", "l", "o", "g", "í", "a">>

M_ElMercurio == <<"E", "l", " ", "M", "e", "r", "c", "u", "r", "i", "o">>

M_ELMERCURIO == <<"E", "L", " ", "M", "E", "R", "C", "U", "R", "I", "O">>

M_elmercurio == <<"e", "l", " ", "m", "e", "r", "c", "u", "r", "i", "o">>

M_Mercurio == <<"M", "e", "r", "c", "u", "r", "i", "o">>

T_Tecnologia == <<"T", "e", "c", "n", "o", "l", "o", "g", "í", "a">>

T_TECNOLOGIA == <<"T", "E", "C", "N", "O", "L", "O", "G", "Í", "A">>

ID_N001 == <<"N", "0", "0", "1">>

ID_N003 == <<"N", "0", "0", "3">>

ID_N005 == <<"N", "0", "0", "5">>

ID_N999 == <<"N", "9", "9", "9">>

ID_n001 == <<"n", "0", "0", "1">>

----------------------------------------------------------------------------
(* Handler of GET /api/v1/noticias: the filters, in the order of the code *)

(* Mutant of filtro_q: the keyword is looked for in titulo only. *)
filtro_q_solo_titulo(resultados, q) ==
  IF q # None /\ valor(q) # <<>>
    THEN LET q_lower == lower(valor(q))
         IN  SelectSeq(resultados,
               LAMBDA n : contiene(q_lower, lower(n.titulo)))
    ELSE resultados

(* main.py:88-93: the keyword filter, on titulo OR contenido. *)
filtro_q(resultados, q) ==
  IF truthy_str(q)
    THEN LET q_lower == lower(valor(q))
         IN  SelectSeq(resultados,
               LAMBDA n : \/ contiene(q_lower, lower(n.titulo))
                          \/ contiene(q_lower, lower(n.contenido)))
    ELSE resultados

(* Mutant of filtro_medio: the names are compared without lower(). *)
filtro_medio_con_caja(resultados, medio) ==
  IF medio # None /\ valor(medio) # <<>>
    THEN SelectSeq(resultados, LAMBDA n : n.fuente = valor(medio))
    ELSE resultados

(* main.py:96-101: the medio filter, equality of the lower-cased names. *)
filtro_medio(resultados, medio) ==
  IF truthy_str(medio)
    THEN LET medio_lower == lower(valor(medio))
         IN  SelectSeq(resultados, LAMBDA n : lower(n.fuente) = medio_lower)
    ELSE resultados

(* Mutant of filtro_tema: the `if tema:` guard is missing, so an omitted
   tema is compared with the tema of each Noticia. *)
filtro_tema_sin_guarda(resultados, tema) ==
  IF tema # None /\ valor(tema) # <<>>
    THEN LET tema_lower == lower(valor(tema))
         IN  SelectSeq(resultados,
               LAMBDA n : /\ n.tema # None /\ valor(n.tema) # <<>>
                          /\ lower(valor(n.tema)) = tema_lower)
    ELSE SelectSeq(resultados, LAMBDA n : n.tema = tema)

(* Mutant of filtro_tema: the tema of the Noticia is not lower-cased. *)
filtro_tema_sin_lower(resultados, tema) ==
  IF tema # None /\ valor(tema) # <<>>
    THEN LET tema_lower == lower(valor(tema))
         IN  SelectSeq(resultados,
               LAMBDA n : /\ n.tema # None /\ valor(n.tema) # <<>>
                          /\ valor(n.tema) = tema_lower)
    ELSE resultados

(* main.py:104-109: the tema filter; `n.tema and ...` drops a Noticia whose
   tema is None or "". *)
filtro_tema(resultados, tema) ==
  IF truthy_str(tema)
    THEN LET tema_lower == lower(valor(tema))
         IN  SelectSeq(resultados,
               LAMBDA n : /\ truthy_str(n.tema)
                          /\ lower(valor(n.tema)) = tema_lower)
    ELSE resultados

(* main.py:112-116 *)
filtro_fecha_inicio(resultados, fecha_inicio) ==
  IF truthy_date(fecha_inicio)
    THEN SelectSeq(resultados,
           LAMBDA n : date_ge(date(n.fecha_publicacion), valor(fecha_inicio)))
    ELSE resultados

(* Mutant of filtro_fecha_fin: the whole datetime is compared with
   midnight of fecha_fin, without .date(). *)
filtro_fecha_fin_sin_date(resultados, fecha_fin) ==
  IF fecha_fin # None
    THEN SelectSeq(resultados,
           LAMBDA n :
             \/ date(n.fecha_publicacion) # valor(fecha_fin)
                  /\ date_le(date(n.fecha_publicacion), valor(fecha_fin))
             \/ date(n.fecha_publicacion) = valor(fecha_fin)
                  /\ n.fecha_publicacion.hora = 0
                  /\ n.fecha_publicacion.minuto = 0)
    ELSE resultados

(* main.py:117-121 *)
filtro_fecha_fin(resultados, fecha_fin) ==
  IF truthy_date(fecha_fin)
    THEN SelectSeq(resultados,
           LAMBDA n : date_le(date(n.fecha_publicacion), valor(fecha_fin)))
    ELSE resultados

(* Mutant of listar_noticias_con_filtros: the result is returned newest
   position first. *)
listar_invertido(db, q, medio, fecha_inicio, fecha_fin, tema) ==
  LET r == filtro_fecha_fin(
             filtro_fecha_inicio(
               filtro_tema(filtro_medio(filtro_q(db, q), medio), tema),
               fecha_inicio),
             fecha_fin)
  IN  [i \in 1..Len(r) |-> r[Len(r) + 1 - i]]

(* Mutant of listar_noticias_con_filtros: the medio filter reads the whole
   list instead of the running resultados. *)
listar_medio_sobre_db(db, q, medio, fecha_inicio, fecha_fin, tema) ==
  LET r1 == filtro_q(db, q)
      r2 == IF medio # None /\ valor(medio) # <<>>
              THEN filtro_medio(db, medio) ELSE r1
  IN  filtro_fecha_fin(
        filtro_fecha_inicio(filtro_tema(r2, tema), fecha_inicio), fecha_fin)

(* main.py:85-123: resultados starts as a copy of the list and is rebound
   by each filter in turn; the value returned is the last binding. *)
listar_noticias_con_filtros(db, q, medio, fecha_inicio, fecha_fin, tema) ==
  LET r0 == db
      r1 == filtro_q(r0, q)
      r2 == filtro_medio(r1, medio)
      r3 == filtro_tema(r2, tema)
      r4 == filtro_fecha_inicio(r3, fecha_inicio)
      r5 == filtro_fecha_fin(r4, fecha_fin)
  IN  r5

----------------------------------------------------------------------------
(* Handler of GET /api/v1/noticias/{noticia_id} *)

HTTP_200 == [status |-> 200, detail |-> ""]

HTTP_404 == [status |-> 404, detail |-> "Noticia no encontrada"]

(* Mutant of next_por_id: the ids are compared after lower(). *)
next_por_id_sin_caja(db, noticia_id) ==
  LET hallados ==
        SelectSeq(db, LAMBDA n : lower(n.id) = lower(noticia_id))
  IN  IF hallados = <<>> THEN None ELSE Some(Head(hallados))

(* main.py:131: next(...) over the list: the first Noticia whose id equals
   noticia_id, or None.  Equality of str is exact, character by character. *)
next_por_id(db, noticia_id) ==
  LET hallados == SelectSeq(db, LAMBDA n : n.id = noticia_id)
  IN  IF hallados = <<>> THEN None ELSE Some(Head(hallados))

(* main.py:132-135: HTTPException(404) when nothing was found, else the
   Noticia.  The body of a response is a sequence: the one Noticia found,
   or nothing. *)
responder_noticia(noticia) ==
  IF noticia = None
    THEN [status |-> HTTP_404.status, detail |-> HTTP_404.detail,
          cuerpo |-> <<>>]
    ELSE [status |-> HTTP_200.status, detail |-> HTTP_200.detail,
          cuerpo |-> <<valor(noticia)>>]

obtener_noticia(db, noticia_id) ==
  responder_noticia(next_por_id(db, noticia_id))

----------------------------------------------------------------------------
(* Requests *)

MaxExtra == 1

NumHilos == 2

HILOS == 1..NumHilos

LIBRE == [pc |-> "libre"]

Q_VALORES == {None, Some(<<>>), Some(Q_IA), Some(Q_tecnologia)}

MEDIO_VALORES ==
  {None, Some(<<>>), Some(M_ElMercurio), Some(M_ELMERCURIO),
   Some(M_elmercurio), Some(M_Mercurio)}

TEMA_VALORES == {None, Some(<<>>), Some(T_Tecnologia), Some(T_TECNOLOGIA)}

FECHA_INICIO_VALORES ==
  {None, Some(fecha(2025, 10, 21)), Some(fecha(2025, 10, 25))}

FECHA_FIN_VALORES ==
  {None, Some(fecha(2025, 10, 25)), Some(fecha(2025, 10, 20))}

ID_VALORES == {ID_N001, ID_N003, ID_N005, ID_N999, ID_n001}

EXTRAS == {N005, N006, N007}

(* The sequences of at most n elements of S. *)
RECURSIVE Secuencias(_, _)
Secuencias(S, n) ==
  IF n = 0 THEN {<<>>}
  ELSE LET menos == Secuencias(S, n - 1)
       IN  menos \cup {Append(s, x) : s \in menos, x \in S}

(* The stores the service may start with: the sample data, followed by at
   most MaxExtra further Noticias, no Noticia twice (ids are unique). *)
ALMACENES ==
  {DATOS_DE_PRUEBA \o e :
     e \in {s \in Secuencias(EXTRAS, MaxExtra) :
              \A i, j \in 1..Len(s) : i # j => s[i] # s[j]}}

SIN_PETICION == [op |-> "ninguna"]

SIN_RESPUESTA == [status |-> 0, detail |-> "", cuerpo |-> <<>>]

----------------------------------------------------------------------------
(* The service *)

Init ==
  /\ DB_SIMULADA \in ALMACENES
  /\ peticion = SIN_PETICION
  /\ respuesta = SIN_RESPUESTA
  /\ hilos = [h \in HILOS |-> LIBRE]

(* GET /api/v1/noticias?q=&medio=&fecha_inicio=&fecha_fin=&tema= *)
ListarNoticias ==
  /\ peticion = SIN_PETICION
  /\ \E q \in Q_VALORES, medio \in MEDIO_VALORES, tema \in TEMA_VALORES,
        fecha_inicio \in FECHA_INICIO_VALORES,
        fecha_fin \in FECHA_FIN_VALORES :
       /\ peticion' = [op |-> "listar", q |-> q, medio |-> medio,
                       fecha_inicio |-> fecha_inicio,
                       fecha_fin |-> fecha_fin, tema |-> tema]
       /\ respuesta' =
            [status |-> HTTP_200.status, detail |-> HTTP_200.detail,
             cuerpo |-> listar_noticias_con_filtros(DB_SIMULADA, q, medio,
                          fecha_inicio, fecha_fin, tema)]
  /\ UNCHANGED <<DB_SIMULADA, hilos>>

(* GET /api/v1/noticias/{noticia_id} *)
ObtenerNoticia ==
  /\ peticion = SIN_PETICION
  /\ \E noticia_id \in ID_VALORES :
       /\ peticion' = [op |-> "obtener", noticia_id |-> noticia_id]
       /\ respuesta' = obtener_noticia(DB_SIMULADA, noticia_id)
  /\ UNCHANGED <<DB_SIMULADA, hilos>>

(* The response is sent and the service waits for the next request. *)
Responder ==
  /\ peticion # SIN_PETICION
  /\ peticion' = SIN_PETICION
  /\ respuesta' = SIN_RESPUESTA
  /\ UNCHANGED <<DB_SIMULADA, hilos>>

Next == ListarNoticias \/ ObtenerNoticia \/ Responder

Spec == Init /\ [][Next]_vars

----------------------------------------------------------------------------
(* The service under concurrent requests.  Both handlers are plain `def`
   functions, which the framework runs on worker threads, so calls overlap:
   each thread runs its handler statement by statement on its own local
   variables, and the only shared object is DB_SIMULADA. *)

(* The requests the concurrent clients send. *)
PETICIONES_LISTAR ==
  {[q |-> Some(Q_IA), medio |-> Some(M_ElMercurio),
    fecha_inicio |-> Some(fecha(2025, 10, 21)),
    fecha_fin |-> Some(fecha(2025, 10, 25)), tema |-> Some(T_Tecnologia)],
   [q |-> None, medio |-> None, fecha_inicio |-> None, fecha_fin |-> None,
    tema |-> None],
   [q |-> None, medio |-> Some(<<>>), fecha_inicio |-> None,
    fecha_fin |-> Some(fecha(2025, 10, 20)), tema |-> None]}

PETICIONES_OBTENER == {ID_N003, ID_N999}

InitConcurrente ==
  /\ DB_SIMULADA = DATOS_DE_PRUEBA
  /\ peticion = SIN_PETICION
  /\ respuesta = SIN_RESPUESTA
  /\ hilos = [h \in HILOS |-> LIBRE]

(* A thread takes a GET /api/v1/noticias request. *)
RecibirListar(h) ==
  /\ hilos[h] = LIBRE
  /\ \E c \in PETICIONES_LISTAR :
       hilos' = [hilos EXCEPT ![h] =
                   [pc |-> "copiar", args |-> c, resultados |-> <<>>]]
  /\ UNCHANGED <<DB_SIMULADA, peticion, respuesta>>

(* main.py:85: resultados = DB_SIMULADA[:] *)
Copiar(h) ==
  /\ hilos[h].pc = "copiar"
  /\ hilos' = [hilos EXCEPT ![h].resultados = DB_SIMULADA,
                            ![h].pc = "q"]
  /\ UNCHANGED <<DB_SIMULADA, peticion, respuesta>>

(* Mutant of PasoQ: resultados is the list itself, not a copy, and the
   filter rewrites it in place. *)
PasoQEnSitio(h) ==
  /\ hilos[h].pc = "q"
  /\ DB_SIMULADA' = filtro_q(hilos[h].resultados, hilos[h].args.q)
  /\ hilos' = [hilos EXCEPT
       ![h].resultados = filtro_q(hilos[h].resultados, hilos[h].args.q),
       ![h].pc = "medio"]
  /\ UNCHANGED <<peticion, respuesta>>

(* main.py:88-93 *)
PasoQ(h) ==
  /\ hilos[h].pc = "q"
  /\ hilos' = [hilos EXCEPT
       ![h].resultados = filtro_q(hilos[h].resultados, hilos[h].args.q),
       ![h].pc = "medio"]
  /\ UNCHANGED <<DB_SIMULADA, peticion, respuesta>>

(* main.py:96-101 *)
PasoMedio(h) ==
  /\ hilos[h].pc = "medio"
  /\ hilos' = [hilos EXCEPT
       ![h].resultados =
          filtro_medio(hilos[h].resultados, hilos[h].args.medio),
       ![h].pc = "tema"]
  /\ UNCHANGED <<DB_SIMULADA, peticion, respuesta>>

(* main.py:104-109 *)
PasoTema(h) ==
  /\ hilos[h].pc = "tema"
  /\ hilos' = [hilos EXCEPT
       ![h].resultados = filtro_tema(hilos[h].resultados, hilos[h].args.tema),
       ![h].pc = "fecha_inicio"]
  /\ UNCHANGED <<DB_SIMULADA, peticion, respuesta>>

(* main.py:112-116 *)
PasoFechaInicio(h) ==
  /\ hilos[h].pc = "fecha_inicio"
  /\ hilos' = [hilos EXCEPT
       ![h].resultados =
          filtro_fecha_inicio(hilos[h].resultados,
                              hilos[h].args.fecha_inicio),
       ![h].pc = "fecha_fin"]
  /\ UNCHANGED <<DB_SIMULADA, peticion, respuesta>>

(* main.py:117-123: the last filter and the return. *)
PasoFechaFin(h) ==
  /\ hilos[h].pc = "fecha_fin"
  /\ hilos' = [hilos EXCEPT ![h] =
       [pc |-> "hecho",
        ret |-> [status |-> HTTP_200.status, detail |-> HTTP_200.detail,
                 cuerpo |-> filtro_fecha_fin(hilos[h].resultados,
                                             hilos[h].args.fecha_fin)]]]
  /\ UNCHANGED <<DB_SIMULADA, peticion, respuesta>>

(* A thread takes a GET /api/v1/noticias/{noticia_id} request. *)
RecibirObtener(h) ==
  /\ hilos[h] = LIBRE
  /\ \E noticia_id \in PETICIONES_OBTENER :
       hilos' = [hilos EXCEPT ![h] =
                   [pc |-> "buscar", noticia_id |-> noticia_id]]
  /\ UNCHANGED <<DB_SIMULADA, peticion, respuesta>>

(* main.py:131 *)
Buscar(h) ==
  /\ hilos[h].pc = "buscar"
  /\ hilos' = [hilos EXCEPT ![h] =
       [pc |-> "comprobar",
        noticia |-> next_por_id(DB_SIMULADA, hilos[h].noticia_id)]]
  /\ UNCHANGED <<DB_SIMULADA, peticion, respuesta>>

(* main.py:132-135 *)
Comprobar(h) ==
  /\ hilos[h].pc = "comprobar"
  /\ hilos' = [hilos EXCEPT ![h] =
       [pc |-> "hecho", ret |-> responder_noticia(hilos[h].noticia)]]
  /\ UNCHANGED <<DB_SIMULADA, peticion, respuesta>>

(* The response is sent and the thread goes back to the pool. *)
Liberar(h) ==
  /\ hilos[h].pc = "hecho"
  /\ hilos' = [hilos EXCEPT ![h] = LIBRE]
  /\ UNCHANGED <<DB_SIMULADA, peticion, respuesta>>

NextConcurrente ==
  \E h \in HILOS :
    \/ RecibirListar(h)
    \/ Copiar(h)
    \/ PasoQ(h)
    \/ PasoMedio(h)
    \/ PasoTema(h)
    \/ PasoFechaInicio(h)
    \/ PasoFechaFin(h)
    \/ RecibirObtener(h)
    \/ Buscar(h)
    \/ Comprobar(h)
    \/ Liberar(h)

SpecConcurrente == InitConcurrente /\ [][NextConcurrente]_vars

----------------------------------------------------------------------------
(* Vocabulary of the properties *)

EsListar == peticion.op = "listar"

EsObtener == peticion.op = "obtener"

Ids(s) == [i \in 1..Len(s) |-> s[i].id]

Rango(s) == {s[i] : i \in 1..Len(s)}

(* s can be obtained from t by deleting elements of t. *)
RECURSIVE EsSubsecuencia(_, _)
EsSubsecuencia(s, t) ==
  IF s = <<>> THEN TRUE
  ELSE IF t = <<>> THEN FALSE
  ELSE IF Head(s) = Head(t) THEN EsSubsecuencia(Tail(s), Tail(t))
  ELSE EsSubsecuencia(s, Tail(t))

SinDuplicados(s) == \A i, j \in 1..Len(s) : i # j => s[i] # s[j]

(* The request carries exactly these criteria. *)
Criterios(q, medio, fecha_inicio, fecha_fin, tema) ==
  /\ EsListar
  /\ peticion.q = q
  /\ peticion.medio = medio
  /\ peticion.fecha_inicio = fecha_inicio
  /\ peticion.fecha_fin = fecha_fin
  /\ peticion.tema = tema

(* What the search returns for one criterion applied alone. *)
SoloQ(q) == listar_noticias_con_filtros(DB_SIMULADA, q, None, None, None, None)

SoloMedio(m) ==
  listar_noticias_con_filtros(DB_SIMULADA, None, m, None, None, None)

SoloFechaInicio(f) ==
  listar_noticias_con_filtros(DB_SIMULADA, None, None, f, None, None)

SoloFechaFin(f) ==
  listar_noticias_con_filtros(DB_SIMULADA, None, None, None, f, None)

SoloTema(t) ==
  listar_noticias_con_filtros(DB_SIMULADA, None, None, None, None, t)

(* A calendar date as one number, for comparing dates arithmetically. *)
Ordinal(d) == d.anio * 10000 + d.mes * 100 + d.dia

(* Two strings equal up to the case of their letters. *)
IgualSinCaja(a, b) ==
  /\ Len(a) = Len(b)
  /\ \A i \in 1..Len(a) :
       \/ a[i] = b[i]
       \/ a[i] \in DOMAIN MINUSCULA /\ MINUSCULA[a[i]] = b[i]
       \/ b[i] \in DOMAIN MINUSCULA /\ MINUSCULA[b[i]] = a[i]

----------------------------------------------------------------------------
(* C1: whatever the criteria, the sequence a search returns is a
   subsequence of the store: every returned Noticia is in the store, none
   is returned twice, and the store's relative order is kept. *)
C1_Subsecuencia ==
  EsListar =>
    /\ EsSubsecuencia(respuesta.cuerpo, DB_SIMULADA)
    /\ SinDuplicados(Ids(respuesta.cuerpo))
    /\ Rango(respuesta.cuerpo) \subseteq Rango(DB_SIMULADA)

(* A search with two active criteria that returns the first and third
   Noticia of the store and not the second. *)
C1_Witness ==
  /\ EsListar
  /\ truthy_str(peticion.medio)
  /\ truthy_date(peticion.fecha_inicio)
  /\ Len(respuesta.cuerpo) >= 2
  /\ respuesta.cuerpo[1] = DB_SIMULADA[1]
  /\ respuesta.cuerpo[2] = DB_SIMULADA[3]

(* C2, as stated: the search for keyword "IA" alone over the sample store
   returns exactly [N001]. *)
C2_Original ==
  (Criterios(Some(Q_IA), None, None, None, None)
     /\ DB_SIMULADA = DATOS_DE_PRUEBA)
  => Ids(respuesta.cuerpo) = <<ID_N001>>

(* C2, amended: the search for keyword "IA" alone over the sample store
   returns [N001, N002, N004]: "ia" occurs in "lluvia" (N002) and in
   "anuncia" (N004) as well as in the text of N001. *)
C2_Amended ==
  (Criterios(Some(Q_IA), None, None, None, None)
     /\ DB_SIMULADA = DATOS_DE_PRUEBA)
  => Ids(respuesta.cuerpo) = <<N001.id, N002.id, N004.id>>

C2_Witness ==
  /\ Criterios(Some(Q_IA), None, None, None, None)
  /\ DB_SIMULADA = DATOS_DE_PRUEBA
  /\ respuesta.status = 200

(* C3, as stated: an empty-string medio (or tema) is applied as a filter,
   so that only a Noticia whose fuente (tema) is the empty string is
   returned. *)
C3_Original ==
  /\ Criterios(None, Some(<<>>), None, None, None)
       => \A n \in Rango(respuesta.cuerpo) : n.fuente = <<>>
  /\ Criterios(None, None, None, None, Some(<<>>))
       => \A n \in Rango(respuesta.cuerpo) : n.tema = Some(<<>>)

(* C3, amended: an empty-string q, medio or tema is treated exactly as an
   omitted one: the search returns what it returns with that criterion
   absent, so a search with medio = "" (or tema = "") alone returns the
   whole store. *)
C3_Amended ==
  EsListar =>
    /\ peticion.q = Some(<<>>) =>
         respuesta.cuerpo =
           listar_noticias_con_filtros(DB_SIMULADA, None, peticion.medio,
             peticion.fecha_inicio, peticion.fecha_fin, peticion.tema)
    /\ peticion.medio = Some(<<>>) =>
         respuesta.cuerpo =
           listar_noticias_con_filtros(DB_SIMULADA, peticion.q, None,
             peticion.fecha_inicio, peticion.fecha_fin, peticion.tema)
    /\ peticion.tema = Some(<<>>) =>
         respuesta.cuerpo =
           listar_noticias_con_filtros(DB_SIMULADA, peticion.q,
             peticion.medio, peticion.fecha_inicio, peticion.fecha_fin, None)
    /\ (/\ peticion.q \in {None, Some(<<>>)}
        /\ peticion.medio \in {None, Some(<<>>)}
        /\ peticion.tema \in {None, Some(<<>>)}
        /\ peticion.fecha_inicio = None
        /\ peticion.fecha_fin = None) => respuesta.cuerpo = DB_SIMULADA

(* A search with medio = "" alone has answered with every Noticia of a
   store in which every fuente is non-empty. *)
C3_Witness ==
  /\ Criterios(None, Some(<<>>), None, None, None)
  /\ \A n \in Rango(DB_SIMULADA) : n.fuente # <<>>
  /\ respuesta.cuerpo = DB_SIMULADA

(* C4: the result for any set of criteria is, by id and in store order,
   the intersection of the results of each criterion applied alone. *)
C4_Conjuncion ==
  EsListar =>
    Ids(respuesta.cuerpo) =
      SelectSeq(Ids(DB_SIMULADA),
        LAMBDA id :
          /\ id \in Rango(Ids(SoloQ(peticion.q)))
          /\ id \in Rango(Ids(SoloMedio(peticion.medio)))
          /\ id \in Rango(Ids(SoloTema(peticion.tema)))
          /\ id \in Rango(Ids(SoloFechaInicio(peticion.fecha_inicio)))
          /\ id \in Rango(Ids(SoloFechaFin(peticion.fecha_fin))))

(* A search by keyword and medio whose result is non-empty and smaller
   than the result of either criterion alone. *)
C4_Witness ==
  /\ EsListar
  /\ truthy_str(peticion.q)
  /\ truthy_str(peticion.medio)
  /\ Len(respuesta.cuerpo) >= 1
  /\ Len(respuesta.cuerpo) < Len(SoloQ(peticion.q))
  /\ Len(respuesta.cuerpo) < Len(SoloMedio(peticion.medio))

(* C5: a search with no criterion supplied returns every Noticia of the
   store, in store order. *)
C5_Identidad ==
  Criterios(None, None, None, None, None) => respuesta.cuerpo = DB_SIMULADA

C5_Witness ==
  /\ Criterios(None, None, None, None, None)
  /\ respuesta.status = 200
  /\ Len(respuesta.cuerpo) > Len(DATOS_DE_PRUEBA)

(* C6: obtener_noticia with the id of a Noticia of the store answers 200
   with that Noticia, the one whose id is exactly equal; with an id no
   Noticia has it answers 404 and returns no Noticia.  The outcome depends
   on the id and the store alone and no step changes the store, so a
   repeated call has the same outcome whatever calls came between. *)
C6_ObtenerPorId ==
  /\ [](EsObtener =>
          LET iguales ==
                {n \in Rango(DB_SIMULADA) : n.id = peticion.noticia_id}
          IN  IF iguales = {}
                THEN /\ respuesta.status = 404
                     /\ respuesta.cuerpo = <<>>
                ELSE /\ respuesta.status = 200
                     /\ Len(respuesta.cuerpo) = 1
                     /\ respuesta.cuerpo[1] \in iguales
                     /\ Cardinality(iguales) = 1)
  /\ [][DB_SIMULADA' = DB_SIMULADA]_vars

(* A lookup of "n001" has answered 404 on a store that holds "N001". *)
C6_Witness ==
  /\ EsObtener
  /\ peticion.noticia_id = ID_n001
  /\ ID_N001 \in Rango(Ids(DB_SIMULADA))
  /\ respuesta.status = 404

(* The calendar date of n lies in the closed range; an absent end of the
   range does not constrain. *)
EnRango(n, fecha_inicio, fecha_fin) ==
  /\ fecha_inicio # None =>
       Ordinal(n.fecha_publicacion) >= Ordinal(valor(fecha_inicio))
  /\ fecha_fin # None =>
       Ordinal(n.fecha_publicacion) <= Ordinal(valor(fecha_fin))

(* C7: with fecha_inicio and/or fecha_fin supplied, a Noticia is returned
   iff the calendar date of its fecha_publicacion, the time of day ignored,
   is >= fecha_inicio and <= fecha_fin (and it passes the other criteria);
   the range 2025-10-21..2025-10-25 over the sample store returns
   [N001, N002, N003]. *)
C7_RangoDeFechas ==
  /\ (EsListar /\ (peticion.fecha_inicio # None \/ peticion.fecha_fin # None))
       => respuesta.cuerpo =
            SelectSeq(
              listar_noticias_con_filtros(DB_SIMULADA, peticion.q,
                peticion.medio, None, None, peticion.tema),
              LAMBDA n : EnRango(n, peticion.fecha_inicio, peticion.fecha_fin))
  /\ (Criterios(None, None, Some(fecha(2025, 10, 21)),
                Some(fecha(2025, 10, 25)), None)
        /\ DB_SIMULADA = DATOS_DE_PRUEBA)
       => Ids(respuesta.cuerpo) = <<N001.id, N002.id, N003.id>>

(* The range 2025-10-21..2025-10-25 alone has returned a Noticia published
   at 23:59 on the last day of the range. *)
C7_Witness ==
  /\ Criterios(None, None, Some(fecha(2025, 10, 21)),
               Some(fecha(2025, 10, 25)), None)
  /\ \E n \in Rango(respuesta.cuerpo) :
       /\ date(n.fecha_publicacion) = fecha(2025, 10, 25)
       /\ n.fecha_publicacion.hora = 23
       /\ n.fecha_publicacion.minuto = 59

(* C8, as stated: whenever a medio value is supplied, a Noticia is
   returned iff its fuente equals that value up to letter case. *)
C8_Original ==
  \A m \in MEDIO_VALORES \ {None} :
    Criterios(None, m, None, None, None) =>
      respuesta.cuerpo =
        SelectSeq(DB_SIMULADA, LAMBDA n : IgualSinCaja(n.fuente, valor(m)))

(* C8, amended: for a non-empty medio value the filter is a
   case-insensitive exact match: a Noticia is returned iff its fuente
   equals the value up to letter case (and it passes the other criteria),
   values differing only in case give the same result, a proper substring
   of a fuente does not match it, and "El Mercurio" over the sample store
   returns [N001, N003]; an empty medio value is no filter. *)
C8_Amended ==
  /\ (EsListar /\ truthy_str(peticion.medio)) =>
       /\ respuesta.cuerpo =
            SelectSeq(
              listar_noticias_con_filtros(DB_SIMULADA, peticion.q, None,
                peticion.fecha_inicio, peticion.fecha_fin, peticion.tema),
              LAMBDA n : IgualSinCaja(n.fuente, valor(peticion.medio)))
       /\ \A m \in MEDIO_VALORES \ {None} :
            IgualSinCaja(valor(m), valor(peticion.medio)) =>
              respuesta.cuerpo =
                listar_noticias_con_filtros(DB_SIMULADA, peticion.q, m,
                  peticion.fecha_inicio, peticion.fecha_fin, peticion.tema)
  /\ (Criterios(None, Some(M_ElMercurio), None, None, None)
        /\ DB_SIMULADA = DATOS_DE_PRUEBA)
       => Ids(respuesta.cuerpo) = <<N001.id, N003.id>>
  /\ Criterios(None, Some(M_Mercurio), None, None, None)
       => \A n \in Rango(respuesta.cuerpo) : n.fuente # M_ElMercurio
  /\ Criterios(None, Some(<<>>), None, None, None)
       => respuesta.cuerpo = DB_SIMULADA

(* The medio "EL MERCURIO" alone has returned the Noticias of
   "El Mercurio". *)
C8_Witness ==
  /\ Criterios(None, Some(M_ELMERCURIO), None, None, None)
  /\ Len(respuesta.cuerpo) >= 2
  /\ \A n \in Rango(respuesta.cuerpo) : n.fuente # M_ELMERCURIO

(* C9, as stated: whenever a tema value is supplied, a Noticia is returned
   iff its tema is set and equals that value up to letter case, and a
   Noticia whose tema is None is never returned. *)
C9_Original ==
  (EsListar /\ peticion.tema # None) =>
    \A n \in Rango(respuesta.cuerpo) :
      /\ n.tema # None
      /\ IgualSinCaja(valor(n.tema), valor(peticion.tema))

(* C9, amended: for a non-empty tema value, a Noticia is returned iff its
   tema is set and equals the value up to letter case (and it passes the
   other criteria); a Noticia whose tema is None is then never returned;
   "Tecnología" over the sample store returns [N001, N004]; an empty tema
   value is no filter. *)
C9_Amended ==
  /\ (EsListar /\ truthy_str(peticion.tema)) =>
       /\ respuesta.cuerpo =
            SelectSeq(
              listar_noticias_con_filtros(DB_SIMULADA, peticion.q,
                peticion.medio, peticion.fecha_inicio, peticion.fecha_fin,
                None),
              LAMBDA n : /\ n.tema # None
                         /\ IgualSinCaja(valor(n.tema), valor(peticion.tema)))
       /\ \A n \in Rango(respuesta.cuerpo) : n.tema # None
  /\ (Criterios(None, None, None, None, Some(T_Tecnologia))
        /\ DB_SIMULADA = DATOS_DE_PRUEBA)
       => Ids(respuesta.cuerpo) = <<N001.id, N004.id>>
  /\ Criterios(None, None, None, None, Some(<<>>))
       => respuesta.cuerpo = DB_SIMULADA

(* The tema "Tecnología" alone has been applied to a store holding a
   Noticia without tema, and has returned others but not that one. *)
C9_Witness ==
  /\ Criterios(None, None, None, None, Some(T_Tecnologia))
  /\ \E n \in Rango(DB_SIMULADA) : n.tema = None
  /\ Len(respuesta.cuerpo) >= 2
  /\ \A n \in Rango(respuesta.cuerpo) : n.tema # None

(* C10: no operation changes the store: under any interleaving of
   concurrent searches and lookups, whatever their outcome, DB_SIMULADA
   holds the Noticias it held at startup, with the same field values in the
   same order, and their ids are pairwise distinct. *)
C10_AlmacenIntacto ==
  /\ DB_SIMULADA = DATOS_DE_PRUEBA
  /\ SinDuplicados(Ids(DB_SIMULADA))

(* A lookup has ended in 404 while a search on another thread is halfway
   through its filters, some Noticias already dropped. *)
C10_Witness ==
  \E h1, h2 \in HILOS :
    /\ hilos[h1].pc = "tema"
    /\ Len(hilos[h1].resultados) < Len(DB_SIMULADA)
    /\ hilos[h2].pc = "hecho"
    /\ hilos[h2].ret.status = 404

====
